---- MODULE Spec2Model ----
(***************************************************************************)
(* The cdrgraft command of biophi/humanization/cli/cdrgraft.py: the batch  *)
(* pipelines cdrgraft_fasta_only and cdrgraft_full_report and the           *)
(* interactive session cdrgraft_interactive.  The numbering capability      *)
(* (abnumber.Chain), humanize_antibody and get_antibody_humanness are       *)
(* external: whether a call raises is chosen by the environment at the      *)
(* call.                                                                    *)
(***************************************************************************)
EXTENDS Integers, Sequences, FiniteSets, TLC

\* ------------------------------------------------------------------ bounds
MaxRecords == 2
MaxLimit == 2
MaxLines == 2
MaxLineLen == 1

\* ------------------------------------------------------- values and helpers
\* Python's None / an optional value: <<>> is None, <<x>> is the value x.
None == <<>>
Some(x) == <<x>>
IsSome(o) == o /= None

Min(a, b) == IF a <= b THEN a ELSE b
Max(a, b) == IF a >= b THEN a ELSE b

Range(s) == {s[i] : i \in 1..Len(s)}

Last(s) == s[Len(s)]

SeqsUpTo(S, n) == UNION {[1..k -> S] : k \in 0..n}

\* Residue letters stand for a sequence the numbering accepts as heavy ("H")
\* or light ("L"); every other character is not a residue.
Residues == {"H", "L"}
Chars == {" ", ">", "H", "L", "X"}

\* Raw sequences of the FASTA records: heavy, light, not numberable.
RecordSeqs == {<<"H">>, <<"L">>, <<"X">>}

\* ------------------------------------------------------------ pure functions
\* Python truthiness of the --limit option (int or None).
LimitSet(lim) == IsSome(lim) /\ lim[1] /= 0

\* Python slice s[:n].
Slice(s, n) ==
    IF n >= 0 THEN SubSeq(s, 1, Min(n, Len(s)))
    ELSE SubSeq(s, 1, Max(Len(s) + n, 0))

\* "if limit: records = records[:limit]"
Cap(recs, lim) == IF LimitSet(lim) THEN Slice(recs, lim[1]) ELSE recs

\* list(iterate_fasta(inputs)): the records of the source, record.id is the
\* position of the record in the source.
ReadRecords(src) == [i \in 1..Len(src) |-> [id |-> i, seq |-> src[i]]]

\* abnumber.Chain(seq) followed by is_heavy_chain(): the kind of the chain, or
\* ChainParseError when the sequence cannot be numbered.
Chain(seq) ==
    IF seq = <<>> \/ \E i \in 1..Len(seq) : seq[i] \notin Residues
    THEN "ChainParseError"
    ELSE IF seq[1] = "H" THEN "Heavy" ELSE "Light"

\* humanize_antibody(vh, vl, params): a sub-result for each chain given.
humanize_antibody(vh, vl) ==
    [vh |-> IF IsSome(vh) THEN Some([kind |-> "Heavy"]) ELSE None,
     vl |-> IF IsSome(vl) THEN Some([kind |-> "Light"]) ELSE None]

\* get_antibody_humanness(vh, vl, params): a sub-score for each chain given.
get_antibody_humanness(vh, vl) == [vh |-> IsSome(vh), vl |-> IsSome(vl)]

\* What the environment decides for one record: whether each external call
\* (or the building of the FASTA entries) raises.  A call that is never
\* reached is left at TRUE.
EnvOutcomes(kind, oasis, built) ==
    {e \in [humanize : BOOLEAN, parental : BOOLEAN,
            humanized : BOOLEAN, build : BOOLEAN] :
        /\ (kind = "ChainParseError" =>
               e.humanize /\ e.parental /\ e.humanized /\ e.build)
        /\ (~e.humanize \/ ~oasis => e.parental /\ e.humanized)
        /\ (~e.humanize \/ ~built => e.build)}

Ev(op, id) == [op |-> op, id |-> id]
Msg(msg, arg) == [msg |-> msg, arg |-> arg]

\* ----------------------------------------------------------------- state
VARIABLES
    inputs,             \* whether input file paths were given
    fasta_only,         \* --fasta-only
    output,             \* --output (optional)
    oasis_params,       \* whether --oasis-db was given
    limit,              \* --limit (optional int)
    source,             \* the raw sequences of the records of the input files
    pc,                 \* position of the command
    records,            \* the record list (after the cap)
    idx,                \* number of loop iterations done
    results,            \* full report: the result collection
    humanized_records,  \* the entries of the sequence artifact
    sequences,          \* interactive: the collected lines
    pos,                \* interactive: number of collected lines parsed
    vh_chain,           \* interactive: retained heavy chain
    vl_chain,           \* interactive: retained light chain
    lastRead,           \* interactive: what the last input() gave
    log,                \* messages echoed
    trace,              \* external calls and writes, in order
    env,                \* what the environment decided for each record
    fasta_out,          \* the sequence artifact written (optional)
    alignments_out,     \* the alignment transcript written (optional)
    report_out          \* the tabular summary written (optional)

config == <<inputs, fasta_only, output, oasis_params, limit, source>>
batch == <<records, idx, results, humanized_records>>
session == <<sequences, pos, vh_chain, vl_chain, lastRead>>
artifacts == <<fasta_out, alignments_out, report_out>>
vars == <<config, pc, batch, session, log, trace, env, artifacts>>

LimitValues == {None} \cup {Some(n) : n \in -1..MaxLimit}
OutputValues == {None, Some("out")}

Init ==
    /\ inputs \in BOOLEAN
    /\ fasta_only \in BOOLEAN
    /\ output \in OutputValues
    /\ oasis_params \in BOOLEAN
    /\ limit \in LimitValues
    /\ source \in SeqsUpTo(RecordSeqs, MaxRecords)
    /\ (~inputs => ~fasta_only /\ output = None /\ limit = None /\ source = <<>>)
    /\ pc = "start"
    /\ records = <<>>
    /\ idx = 0
    /\ results = <<>>
    /\ humanized_records = <<>>
    /\ sequences = <<>>
    /\ pos = 0
    /\ vh_chain = None
    /\ vl_chain = None
    /\ lastRead = "none"
    /\ log = <<>>
    /\ trace = <<>>
    /\ env = <<>>
    /\ fasta_out = None
    /\ alignments_out = None
    /\ report_out = None

\* cdrgraft(): the dispatch on inputs and --fasta-only.
Dispatch ==
    /\ pc = "start"
    /\ pc' = IF inputs THEN (IF fasta_only THEN "fo_read" ELSE "fr_read")
             ELSE "collect"
    /\ UNCHANGED <<config, batch, session, log, trace, env, artifacts>>


\* ------------------------------------------------------- batch: shared parts
\* Faulty variant of Handled: no clause for ChainParseError, so an unparseable
\* record ends the run.
HandledButParseError(exc) == exc = "Exception"

\* The except clauses of the per-record try block: whether an exception of
\* this kind is caught there, so that the loop goes on with the next record.
Handled(exc) == exc \in {"ChainParseError", "Exception"}

\* The message the except clauses echo for a record, by mode.
FailureMessage(fastaOnly, exc) ==
    IF fastaOnly /\ exc = "ChainParseError"
    THEN "Warning: Could not parse"
    ELSE "Error processing"

\* The chains handed on after "if chain.is_heavy_chain()".
VhOf(kind) == IF kind = "Heavy" THEN Some([kind |-> "Heavy"]) ELSE None
VlOf(kind) == IF kind = "Heavy" THEN None ELSE Some([kind |-> "Light"])

\* 'VH' if humanized_chain.is_heavy_chain() else 'VL'
ChainType(sub) == IF sub.kind = "Heavy" THEN "VH" ELSE "VL"

\* ------------------------------------------------------ cdrgraft_fasta_only
FastaOnlyRead ==
    /\ pc = "fo_read"
    /\ records' = Cap(ReadRecords(source), limit)
    /\ log' = log \o <<Msg("Reading input files...", 0),
                       Msg("Processing", Len(records'))>>
    /\ humanized_records' = <<>>
    /\ pc' = "fo_loop"
    /\ UNCHANGED <<config, idx, results, session, trace, env, artifacts>>

\* One iteration of the loop of cdrgraft_fasta_only, for the record and what
\* the environment decides: the exception that ends the iteration ("none"
\* when none), the entries, the messages and the calls after it.
FastaOnlyIteration(record, e, hrecs) ==
    LET kind == Chain(record.seq)
        called == <<Ev("Chain", record.id)>>
        failed(exc, tr) ==
            [exc |-> exc, humanized_records |-> hrecs,
             log |-> <<Msg(FailureMessage(TRUE, exc), record.id)>>, trace |-> tr]
    IN  IF kind = "ChainParseError" THEN failed("ChainParseError", called)
        ELSE
        LET called2 == called \o <<Ev("humanize_antibody", record.id)>>
            result == humanize_antibody(VhOf(kind), VlOf(kind))
            sub == IF kind = "Heavy" THEN result.vh ELSE result.vl
        IN  IF ~e.humanize THEN failed("Exception", called2)
            ELSE IF sub = None
            THEN [exc |-> "none", humanized_records |-> hrecs,
                  log |-> <<>>, trace |-> called2]
            ELSE IF ~e.build THEN failed("Exception", called2)
            ELSE [exc |-> "none",
                  humanized_records |->
                      Append(hrecs, [id |-> record.id, rec |-> record.id,
                                     chain_type |-> ChainType(sub[1])]),
                  log |-> <<>>, trace |-> called2]

FastaOnlyStep ==
    /\ pc = "fo_loop"
    /\ idx < Len(records)
    /\ LET record == records[idx + 1] IN
       \E e \in EnvOutcomes(Chain(record.seq), FALSE, TRUE) :
          LET it == FastaOnlyIteration(record, e, humanized_records) IN
          /\ humanized_records' = it.humanized_records
          /\ log' = log \o it.log
          /\ trace' = trace \o it.trace
          /\ env' = Append(env, e)
          /\ pc' = IF it.exc = "none" \/ Handled(it.exc) THEN pc ELSE "crashed"
    /\ idx' = idx + 1
    /\ UNCHANGED <<config, records, results, session, artifacts>>

\* Faulty variant of FastaOnlyOutput: the write sits inside the loop body, so
\* the artifact is written after each record.
FastaOnlyOutputInLoop ==
    /\ pc = "fo_loop"
    /\ idx >= 1
    /\ fasta_out /= Some([dest |-> IF IsSome(output) THEN "file" ELSE "stdout",
                          entries |-> humanized_records])
    /\ fasta_out' = Some([dest |-> IF IsSome(output) THEN "file" ELSE "stdout",
                          entries |-> humanized_records])
    /\ log' = log
    /\ trace' = Append(trace, Ev("write sequence", 0))
    /\ pc' = IF idx = Len(records) THEN "done" ELSE pc
    /\ UNCHANGED <<config, batch, session, env, alignments_out, report_out>>

\* Faulty variant of FastaOnlyOutput: the closing message reports the number
\* of records read instead of the number of entries written.
FastaOnlyOutputCountsRecords ==
    /\ pc = "fo_loop"
    /\ idx = Len(records)
    /\ fasta_out' = Some([dest |-> IF IsSome(output) THEN "file" ELSE "stdout",
                          entries |-> humanized_records])
    /\ log' = log \o (IF IsSome(output) THEN <<Msg("Writing output to", 0)>> ELSE <<>>)
                  \o <<Msg("Completed", Len(records))>>
    /\ trace' = Append(trace, Ev("write sequence", 0))
    /\ pc' = "done"
    /\ UNCHANGED <<config, batch, session, env, alignments_out, report_out>>

FastaOnlyOutput ==
    /\ pc = "fo_loop"
    /\ idx = Len(records)
    /\ fasta_out' = Some([dest |-> IF IsSome(output) THEN "file" ELSE "stdout",
                          entries |-> humanized_records])
    /\ log' = log \o (IF IsSome(output) THEN <<Msg("Writing output to", 0)>> ELSE <<>>)
                  \o <<Msg("Completed", Len(humanized_records))>>
    /\ trace' = Append(trace, Ev("write sequence", 0))
    /\ pc' = "done"
    /\ UNCHANGED <<config, batch, session, env, alignments_out, report_out>>


\* ----------------------------------------------------- cdrgraft_full_report
\* Faulty variant of FullReportRead: no check for an empty record list, the
\* run goes on to the loop and the output.
FullReportReadNoEmptyCheck ==
    /\ pc = "fr_read"
    /\ records' = Cap(ReadRecords(source), limit)
    /\ log' = log \o <<Msg("Reading input files...", 0),
                       Msg("Processing", Len(records'))>>
    /\ pc' = "fr_loop"
    /\ results' = <<>>
    /\ humanized_records' = <<>>
    /\ UNCHANGED <<config, idx, session, trace, env, artifacts>>

FullReportRead ==
    /\ pc = "fr_read"
    /\ records' = Cap(ReadRecords(source), limit)
    /\ IF records' = <<>>
       THEN /\ log' = log \o <<Msg("Reading input files...", 0),
                               Msg("No valid sequences found!", 0)>>
            /\ pc' = "done"
       ELSE /\ log' = log \o <<Msg("Reading input files...", 0),
                               Msg("Processing", Len(records'))>>
            /\ pc' = "fr_loop"
    /\ results' = <<>>
    /\ humanized_records' = <<>>
    /\ UNCHANGED <<config, idx, session, trace, env, artifacts>>

\* "if oasis_params: try: parental ...; humanized ... except Exception: echo":
\* the two scores kept for the record, the warning and the calls made.
HumannessScores(oasis, e, id, vh, vl, result) ==
    IF ~oasis
    THEN [parental |-> None, humanized |-> None, log |-> <<>>, trace |-> <<>>]
    ELSE IF ~e.parental
    THEN [parental |-> None, humanized |-> None,
          log |-> <<Msg("Warning: Could not compute OASis scores", id)>>,
          trace |-> <<Ev("get_antibody_humanness parental", id)>>]
    ELSE IF ~e.humanized
    THEN [parental |-> Some(get_antibody_humanness(vh, vl)), humanized |-> None,
          log |-> <<Msg("Warning: Could not compute OASis scores", id)>>,
          trace |-> <<Ev("get_antibody_humanness parental", id),
                      Ev("get_antibody_humanness humanized", id)>>]
    ELSE [parental |-> Some(get_antibody_humanness(vh, vl)),
          humanized |-> Some(get_antibody_humanness(result.vh, result.vl)),
          log |-> <<>>,
          trace |-> <<Ev("get_antibody_humanness parental", id),
                      Ev("get_antibody_humanness humanized", id)>>]

\* Faulty variant of StoreResult: the entry is stored twice.
StoreResultTwice(res, name, result, parental, humanized) ==
    LET entry == [name |-> name, humanization |-> result,
                  parental_humanness |-> parental,
                  humanized_humanness |-> humanized]
    IN  res \o <<entry, entry>>

\* Faulty variant of StoreResult: the entry is put in front of the collection.
StoreResultFirst(res, name, result, parental, humanized) ==
    <<[name |-> name, humanization |-> result,
       parental_humanness |-> parental,
       humanized_humanness |-> humanized]>> \o res

\* results.append({...})
StoreResult(res, name, result, parental, humanized) ==
    Append(res, [name |-> name, humanization |-> result,
                 parental_humanness |-> parental,
                 humanized_humanness |-> humanized])

\* "for chain_result in [result.vh, result.vl]: if chain_result: ..."
\* the FASTA entries of one record, id = record.id + '_' + chain_type.
FastaEntries(id, result) ==
    LET entry(sub) == [id |-> <<id, ChainType(sub)>>, rec |-> id,
                       chain_type |-> ChainType(sub)]
    IN  (IF IsSome(result.vh) THEN <<entry(result.vh[1])>> ELSE <<>>)
        \o (IF IsSome(result.vl) THEN <<entry(result.vl[1])>> ELSE <<>>)

\* Faulty variant of ResultsAfterFailure: a record that failed is kept in the
\* collection as an empty result.
ResultsAfterFailureMarked(res, id) ==
    Append(res, [name |-> id, humanization |-> [vh |-> None, vl |-> None],
                 parental_humanness |-> None, humanized_humanness |-> None])

\* "except Exception as e: echo; continue": the collection is left as it is.
ResultsAfterFailure(res, id) == res

\* One iteration of the loop of cdrgraft_full_report.
FullReportIteration(record, e, oasis, res, hrecs) ==
    LET kind == Chain(record.seq)
        called == <<Ev("Chain", record.id)>>
        failed(exc, r, tr, lg) ==
            [exc |-> exc, results |-> ResultsAfterFailure(r, record.id),
             humanized_records |-> hrecs,
             log |-> lg \o <<Msg(FailureMessage(FALSE, exc), record.id)>>,
             trace |-> tr]
    IN  IF kind = "ChainParseError" THEN failed("ChainParseError", res, called, <<>>)
        ELSE
        LET vh == VhOf(kind)
            vl == VlOf(kind)
            called2 == called \o <<Ev("humanize_antibody", record.id)>>
            result == humanize_antibody(vh, vl)
            sc == HumannessScores(oasis, e, record.id, vh, vl, result)
            stored == StoreResult(res, record.id, result, sc.parental, sc.humanized)
            entries == FastaEntries(record.id, result)
        IN  IF ~e.humanize THEN failed("Exception", res, called2, <<>>)
            ELSE IF entries /= <<>> /\ ~e.build
            THEN failed("Exception", stored, called2 \o sc.trace, sc.log)
            ELSE [exc |-> "none", results |-> stored,
                  humanized_records |-> hrecs \o entries,
                  log |-> sc.log, trace |-> called2 \o sc.trace]

FullReportStep ==
    /\ pc = "fr_loop"
    /\ idx < Len(records)
    /\ LET record == records[idx + 1] IN
       \E e \in EnvOutcomes(Chain(record.seq), oasis_params, TRUE) :
          LET it == FullReportIteration(record, e, oasis_params,
                                        results, humanized_records) IN
          /\ results' = it.results
          /\ humanized_records' = it.humanized_records
          /\ log' = log \o it.log
          /\ trace' = trace \o it.trace
          /\ env' = Append(env, e)
          /\ pc' = IF it.exc = "none" \/ Handled(it.exc) THEN pc ELSE "crashed"
    /\ idx' = idx + 1
    /\ UNCHANGED <<config, records, session, artifacts>>

\* A column of a row of the Overview sheet and the field of the result entry
\* its value is taken from.
Col(name, of) == [name |-> name, of |-> of]

\* The humanness columns a row takes from the score kept in field `of`.
HumannessCols(score, of) ==
    IF IsSome(score)
    THEN {Col("OASis_Identity", of), Col("OASis_Percentile", of)}
         \cup (IF score[1].vh THEN {Col("Heavy_OASis_Identity", of)} ELSE {})
         \cup (IF score[1].vl THEN {Col("Light_OASis_Identity", of)} ELSE {})
    ELSE {}

\* Faulty variant of OverviewRow: the parental score fills the humanness
\* columns when the humanized score is absent.
OverviewRowParentalFallback(res) ==
    [Antibody |-> res.name,
     columns |->
        {Col("Antibody", "name")}
        \cup (IF IsSome(res.humanized_humanness)
              THEN HumannessCols(res.humanized_humanness, "humanized_humanness")
              ELSE HumannessCols(res.parental_humanness, "parental_humanness"))
        \cup {Col("Num_Mutations", "humanization")}]

\* One row of the Overview sheet: the antibody and the columns it fills in.
OverviewRow(res) ==
    [Antibody |-> res.name,
     columns |->
        {Col("Antibody", "name")}
        \cup HumannessCols(res.humanized_humanness, "humanized_humanness")
        \cup {Col("Num_Mutations", "humanization")}]

\* Faulty variant of WritesReport: the report is written whenever there are
\* results, with or without a humanness configuration.
WritesReportAlways(oasis, res) == res /= <<>>

\* "if oasis_params and results:"
WritesReport(oasis, res) == oasis /\ res /= <<>>

\* "# Output results": what is written, by destination and configuration.
WrittenArtifacts(out, oasis, res, hrecs) ==
    IF ~IsSome(out)
    THEN [fasta |-> Some([dest |-> "stdout", entries |-> hrecs]),
          alignments |-> None, report |-> None,
          trace |-> <<Ev("write sequence", 0)>>,
          log |-> <<>>]
    ELSE [fasta |-> Some([dest |-> "file", entries |-> hrecs]),
          alignments |->
              IF res /= <<>>
              THEN Some([dest |-> "file",
                         blocks |-> [i \in 1..Len(res) |-> res[i].name]])
              ELSE None,
          report |->
              IF WritesReport(oasis, res)
              THEN Some([dest |-> "file",
                         rows |-> [i \in 1..Len(res) |-> OverviewRow(res[i])]])
              ELSE None,
          trace |-> <<Ev("write sequence", 0)>>
                    \o (IF res /= <<>> THEN <<Ev("write alignments", 0)>> ELSE <<>>)
                    \o (IF WritesReport(oasis, res) THEN <<Ev("write report", 0)>> ELSE <<>>),
          log |-> <<Msg("Writing humanized sequences to", 0)>>
                  \o (IF res /= <<>> THEN <<Msg("Writing alignments to", 0)>> ELSE <<>>)
                  \o (IF WritesReport(oasis, res) THEN <<Msg("Writing report to", 0)>> ELSE <<>>)
                  \o <<Msg("Completed! Output saved to", 0)>>]

FullReportOutput ==
    /\ pc = "fr_loop"
    /\ idx = Len(records)
    /\ LET w == WrittenArtifacts(output, oasis_params, results, humanized_records) IN
       /\ fasta_out' = w.fasta
       /\ alignments_out' = w.alignments
       /\ report_out' = w.report
       /\ trace' = trace \o w.trace
       /\ log' = log \o w.log \o <<Msg("Successfully humanized", Len(results))>>
    /\ pc' = "done"
    /\ UNCHANGED <<config, batch, session, env>>


\* ----------------------------------------------------- cdrgraft_interactive
\* The lines input() can give: characters without the line end.
Lines == SeqsUpTo(Chars, MaxLineLen)

RECURSIVE lstrip(_)
lstrip(s) == IF s /= <<>> /\ Head(s) = " " THEN lstrip(Tail(s)) ELSE s

RECURSIVE rstrip(_)
rstrip(s) ==
    IF s /= <<>> /\ s[Len(s)] = " " THEN rstrip(SubSeq(s, 1, Len(s) - 1)) ELSE s

\* str.strip()
strip(s) == rstrip(lstrip(s))

\* seq.startswith('>')
IsHeader(seq) == seq /= <<>> /\ seq[1] = ">"

\* Faulty variant of BreakOnBlank: any blank line ends the loop.
BreakOnAnyBlank(seqs) == TRUE

\* "if sequences: break" on a blank line.
BreakOnBlank(seqs) == seqs /= <<>>

\* One input() that returns a line: "if not line.strip(): if sequences: break;
\* continue" and "sequences.append(line.strip())".
ReadLine ==
    /\ pc = "collect"
    /\ \E line \in Lines :
          IF strip(line) = <<>>
          THEN /\ lastRead' = "blank"
               /\ pc' = IF BreakOnBlank(sequences) THEN "check" ELSE pc
               /\ UNCHANGED sequences
          ELSE /\ Len(sequences) < MaxLines
               /\ lastRead' = "line"
               /\ sequences' = Append(sequences, strip(line))
               /\ UNCHANGED pc
    /\ UNCHANGED <<config, batch, pos, vh_chain, vl_chain, log, trace, env, artifacts>>

\* One input() that raises EOFError.
ReadEOF ==
    /\ pc = "collect"
    /\ lastRead' = "eof"
    /\ pc' = "check"
    /\ UNCHANGED <<config, batch, sequences, pos, vh_chain, vl_chain,
                   log, trace, env, artifacts>>

\* "if not sequences: echo; return" and the start of the parse loop.
CheckSequences ==
    /\ pc = "check"
    /\ IF sequences = <<>>
       THEN /\ log' = Append(log, Msg("No sequences provided", 0))
            /\ pc' = "done"
       ELSE /\ pc' = "parse"
            /\ UNCHANGED log
    /\ vh_chain' = None
    /\ vl_chain' = None
    /\ pos' = 0
    /\ UNCHANGED <<config, batch, sequences, lastRead, trace, env, artifacts>>

\* Faulty variant of Retain: a chain already retained is kept (first wins).
RetainFirst(vh, vl, n, seq) ==
    LET kind == Chain(seq) IN
    IF kind = "ChainParseError" THEN [vh |-> vh, vl |-> vl]
    ELSE IF kind = "Heavy"
    THEN [vh |-> IF IsSome(vh) THEN vh
                 ELSE Some([line |-> n, seq |-> seq, name |-> "VH"]),
          vl |-> vl]
    ELSE [vh |-> vh,
          vl |-> IF IsSome(vl) THEN vl
                 ELSE Some([line |-> n, seq |-> seq, name |-> "VL"])]

\* The chains retained after the n-th collected line is classified; a chain
\* object is told from another of the same sequence by the line it came from.
Retain(vh, vl, n, seq) ==
    LET kind == Chain(seq) IN
    IF kind = "ChainParseError" THEN [vh |-> vh, vl |-> vl]
    ELSE IF kind = "Heavy"
    THEN [vh |-> Some([line |-> n, seq |-> seq, name |-> "VH"]), vl |-> vl]
    ELSE [vh |-> vh, vl |-> Some([line |-> n, seq |-> seq, name |-> "VL"])]

\* One iteration of "for seq in sequences".
ParseLine ==
    /\ pc = "parse"
    /\ pos < Len(sequences)
    /\ LET seq == sequences[pos + 1] IN
       IF IsHeader(seq)
       THEN UNCHANGED <<vh_chain, vl_chain, trace>>
       ELSE /\ vh_chain' = Retain(vh_chain, vl_chain, pos + 1, seq).vh
            /\ vl_chain' = Retain(vh_chain, vl_chain, pos + 1, seq).vl
            /\ trace' = Append(trace, Ev("Chain", pos + 1))
    /\ pos' = pos + 1
    /\ UNCHANGED <<config, pc, batch, sequences, lastRead, log, env, artifacts>>

\* Faulty variant of NoChain: the session goes on without any chain.
NoChainNever(vh, vl) == FALSE

\* "if not vh_chain and not vl_chain"
NoChain(vh, vl) == vh = None /\ vl = None

\* "if not vh_chain and not vl_chain: echo; return", then humanize_antibody
\* and the alignment printed; an exception of humanize_antibody is not caught.
InteractiveHumanize ==
    /\ pc = "parse"
    /\ pos = Len(sequences)
    /\ IF NoChain(vh_chain, vl_chain)
       THEN /\ log' = Append(log, Msg("Could not parse any valid antibody sequences", 0))
            /\ pc' = "done"
            /\ UNCHANGED trace
       ELSE /\ trace' = Append(trace, Ev("humanize_antibody", 0))
            /\ \E ok \in BOOLEAN :
                  IF ok
                  THEN /\ log' = log \o <<Msg("Humanizing...", 0), Msg("alignment", 0)>>
                       /\ pc' = IF oasis_params THEN "score" ELSE "done"
                  ELSE /\ log' = Append(log, Msg("Humanizing...", 0))
                       /\ pc' = "crashed"
    /\ UNCHANGED <<config, batch, session, env, artifacts>>

\* "if oasis_params: try: get_antibody_humanness ... except Exception: echo"
InteractiveScore ==
    /\ pc = "score"
    /\ trace' = Append(trace, Ev("get_antibody_humanness humanized", 0))
    /\ \E ok \in BOOLEAN :
          log' = IF ok
                 THEN log \o <<Msg("OASis Identity", 0), Msg("OASis Percentile", 0)>>
                 ELSE Append(log, Msg("Could not compute OASis scores", 0))
    /\ pc' = "done"
    /\ UNCHANGED <<config, batch, session, env, artifacts>>

\* ------------------------------------------------------------ specification
Next ==
    \/ Dispatch
    \/ FastaOnlyRead
    \/ FastaOnlyStep
    \/ FastaOnlyOutput
    \/ FullReportRead
    \/ FullReportStep
    \/ FullReportOutput
    \/ ReadLine
    \/ ReadEOF
    \/ CheckSequences
    \/ ParseLine
    \/ InteractiveHumanize
    \/ InteractiveScore

Spec == Init /\ [][Next]_vars


\* ================================================================= claims
FullReport == inputs /\ ~fasta_only
FastaOnly == inputs /\ fasta_only

\* The loop of a batch mode has run over every record.
LoopEnded == pc \in {"fo_loop", "fr_loop", "done"} /\ idx = Len(records)

\* Processed records whose classification raised a parse failure.
ParseFailed == {i \in 1..idx : Chain(records[i].seq) = "ChainParseError"}

\* Processed records whose humanize_antibody call raised.
HumanizeFailed == {i \in 1..idx : ~env[i].humanize}

\* Processed records that passed classification and humanization.
Survivors == (1..idx) \ (ParseFailed \cup HumanizeFailed)

\* The calls of operation op made so far, as record ids.
Called(op) == {trace[k].id : k \in {j \in 1..Len(trace) : trace[j].op = op}}

\* C1: in a full-report run over the N records left after the cap, the result
\* collection at the end of the loop has at most N entries, and exactly N minus
\* the number of records whose classification raised a parse failure or whose
\* humanization call raised.
C1_ResultCount ==
    (FullReport /\ LoopEnded) =>
        /\ Len(results) <= Len(records)
        /\ Len(results) =
              Len(records) - Cardinality(ParseFailed \cup HumanizeFailed)

C1_Witness ==
    /\ FullReport /\ pc = "done" /\ Len(records) = 2
    /\ ParseFailed \cup HumanizeFailed /= {}
    /\ Len(results) = 1

\* C2: in a full-report run, after any number of records, the names of the
\* result collection are a subsequence of the input record sequence: they are
\* ids of records processed so far, in strictly increasing input position, so
\* order is kept and no record has two entries.
C2_ResultOrder ==
    FullReport =>
        /\ \A k \in 1..Len(results) :
              /\ results[k].name \in 1..idx
              /\ records[results[k].name].id = results[k].name
        /\ \A j, k \in 1..Len(results) :
              j < k => results[j].name < results[k].name

C2_Witness ==
    /\ FullReport /\ pc = "fr_loop" /\ idx = 2
    /\ Len(results) = 2
    /\ results[1].name = 1 /\ results[2].name = 2

\* C3: in both batch modes a record that cannot be numbered never appears in
\* the results or among the sequence entries, the run never stops at it, and
\* when the run is done every record of the list has been classified.
C3_UnparseableSkipped ==
    inputs =>
        /\ \A k \in 1..Len(results) :
              Chain(source[results[k].name]) /= "ChainParseError"
        /\ \A k \in 1..Len(humanized_records) :
              Chain(source[humanized_records[k].rec]) /= "ChainParseError"
        /\ pc /= "crashed"
        /\ Called("Chain") = 1..idx
        /\ (pc = "done" => idx = Len(records))

C3_Witness ==
    /\ FastaOnly /\ pc = "done" /\ Len(records) = 2
    /\ Chain(records[1].seq) = "ChainParseError"
    /\ Len(humanized_records) = 1 /\ humanized_records[1].rec = 2
    /\ fasta_out /= None


\* The result entry of record i, if it has one.
EntriesOf(i) == {k \in 1..Len(results) : results[k].name = i}

\* C4: in a full-report run with humanness configured, every record that
\* passed classification and humanization is in the result collection, and of
\* its two scores exactly those whose scoring call fails are absent: a side
\* whose scoring would succeed has its score.
C4_IndependentScores ==
    (FullReport /\ oasis_params) =>
        \A i \in Survivors :
            \E k \in EntriesOf(i) :
                /\ IsSome(results[k].parental_humanness) <=> env[i].parental
                /\ IsSome(results[k].humanized_humanness) <=> env[i].humanized

\* C5: in both batch modes, with a cap N >= 0 and more than N input records,
\* only the first N records are classified and humanized, and at the end all
\* of the first N have been.
C5_CapPrefix ==
    (inputs /\ IsSome(limit) /\ limit[1] >= 0 /\ Len(source) > limit[1]) =>
        /\ Called("Chain") \subseteq 1..limit[1]
        /\ Called("humanize_antibody") \subseteq 1..limit[1]
        /\ (pc = "done" => Called("Chain") = 1..limit[1])

\* The results whose humanized-side scoring call failed while the parental
\* one succeeded.
HumanizedSideFailed ==
    {k \in 1..Len(results) :
        env[results[k].name].parental /\ ~env[results[k].name].humanized}

\* The count of the closing message "Successfully humanized n".
ReportedCount ==
    {log[j].arg : j \in {n \in 1..Len(log) : log[n].msg = "Successfully humanized"}}

\* C6 as stated: with humanness and a report directory, the row of a record
\* whose scoring failed for the humanized side only has the parental
\* humanness columns filled in, no humanized-side column, and the record is
\* counted.
C6_RowHasParentalColumns ==
    (FullReport /\ oasis_params /\ IsSome(report_out)) =>
        \A k \in HumanizedSideFailed :
            LET row == report_out[1].rows[k] IN
            /\ row.Antibody = results[k].name
            /\ \E c \in row.columns : c.of = "parental_humanness"
            /\ \A c \in row.columns : c.of /= "humanized_humanness"
            /\ ReportedCount = {Len(results)}

\* C6 amended: the row of such a record has no humanness column at all, only
\* Antibody and Num_Mutations (the sheet has columns for the humanized-side
\* score only); the parental score is kept in the result entry, and the record
\* is counted.
C6_RowWithoutHumanness ==
    (FullReport /\ oasis_params /\ IsSome(report_out)) =>
        \A k \in HumanizedSideFailed :
            LET row == report_out[1].rows[k] IN
            /\ row.Antibody = results[k].name
            /\ row.columns = {Col("Antibody", "name"),
                              Col("Num_Mutations", "humanization")}
            /\ IsSome(results[k].parental_humanness)
            /\ ~IsSome(results[k].humanized_humanness)
            /\ ReportedCount = {Len(results)}

C6_Witness ==
    /\ FullReport /\ oasis_params /\ pc = "done" /\ IsSome(report_out)
    /\ Len(results) = 2
    /\ HumanizedSideFailed = {1}
    /\ IsSome(results[2].humanized_humanness)

\* C7: in a full-report run, without an output destination nothing but the
\* sequence artifact is written, and it goes to the default stream; the
\* transcript is written only with a report directory; the summary only with
\* a report directory and a humanness configuration.  A run that reaches the
\* output step always writes the sequence artifact.
C7_ArtifactGating ==
    FullReport =>
        /\ (~IsSome(output) =>
               /\ alignments_out = None
               /\ report_out = None
               /\ (IsSome(fasta_out) => fasta_out[1].dest = "stdout"))
        /\ (IsSome(output) /\ IsSome(fasta_out) => fasta_out[1].dest = "file")
        /\ (IsSome(alignments_out) => IsSome(output))
        /\ (IsSome(report_out) => IsSome(output) /\ oasis_params)
        /\ (pc = "done" /\ records /= <<>> => IsSome(fasta_out))

C7_Witness ==
    /\ FullReport /\ pc = "done" /\ IsSome(output) /\ ~oasis_params
    /\ results /= <<>>
    /\ IsSome(fasta_out) /\ IsSome(alignments_out) /\ report_out = None

\* The sequence entries the result collection calls for: one per populated
\* sub-result, in result order, heavy before light.
RECURSIVE ExpectedEntries(_)
ExpectedEntries(res) ==
    IF res = <<>> THEN <<>>
    ELSE LET r == Head(res) IN
         (IF IsSome(r.humanization.vh)
          THEN <<[rec |-> r.name, chain_type |-> "VH"]>> ELSE <<>>)
         \o (IF IsSome(r.humanization.vl)
             THEN <<[rec |-> r.name, chain_type |-> "VL"]>> ELSE <<>>)
         \o ExpectedEntries(Tail(res))

\* C8: in a full-report run, after any number of records, the sequence
\* entries are exactly the populated sub-results of the entries of the result
\* collection, in result order, heavy before light.
C8_EntriesMatchResults ==
    FullReport =>
        [k \in 1..Len(humanized_records) |->
            [rec |-> humanized_records[k].rec,
             chain_type |-> humanized_records[k].chain_type]]
        = ExpectedEntries(results)


Interactive == ~inputs

\* One step of the session out of, or within, the collecting state.
CollectStep ==
    pc = "collect" =>
        /\ (pc' /= "collect") <=>
              \/ lastRead' = "eof"
              \/ lastRead' = "blank" /\ sequences /= <<>>
        /\ (lastRead' = "blank" /\ sequences = <<>> =>
               pc' = "collect" /\ sequences' = <<>>)
        /\ (lastRead' = "line" =>
               Len(sequences') = Len(sequences) + 1 /\ Last(sequences') /= <<>>)
        /\ (lastRead' /= "line" => sequences' = sequences)

\* A session that ended its input with nothing collected says so and calls
\* nothing.
NothingCollected ==
    (Interactive /\ pc \notin {"start", "collect"} /\ sequences = <<>>) =>
        /\ lastRead = "eof"
        /\ trace = <<>>
        /\ (pc = "done" => log = <<Msg("No sequences provided", 0)>>)
        /\ pc \in {"check", "done"}

\* C9: the input loop leaves the collecting state exactly on end of input or
\* on a blank line read after at least one non-blank line was collected
\* (a blank line before any is skipped); a session that ends with no line
\* collected reports that no sequences were provided and makes no
\* classification, humanization or scoring call.
C9_InputLoop == [][CollectStep]_vars /\ []NothingCollected

C9_Witness ==
    /\ Interactive /\ pc = "done" /\ sequences = <<>>
    /\ lastRead = "eof"
    /\ log = <<Msg("No sequences provided", 0)>>

\* The collected lines among the first n that are classified (not headers) and
\* classify as kind.
LinesOfKind(kind, n) ==
    {i \in 1..n : sequences[i][1] /= ">" /\ Chain(sequences[i]) = kind}

\* The chain of that kind to retain after n lines: the one of the last such
\* line, none when there is no such line.
LastOfKind(kind, name, n) ==
    LET S == LinesOfKind(kind, n) IN
    IF S = {} THEN None
    ELSE LET i == CHOOSE j \in S : \A m \in S : m <= j
         IN  Some([line |-> i, seq |-> sequences[i], name |-> name])

\* C10: after the first pos collected lines are classified in order, the heavy
\* chain retained is that of the last line that classified as heavy and the
\* light chain that of the last line that classified as light (none when no
\* line did); header lines are never classified, and a line that fails to
\* parse changes neither chain.
C10_LastWins ==
    (Interactive /\ pc \in {"parse", "score", "done", "crashed"}
                 /\ sequences /= <<>>) =>
        /\ vh_chain = LastOfKind("Heavy", "VH", pos)
        /\ vl_chain = LastOfKind("Light", "VL", pos)
        /\ Called("Chain") = {i \in 1..pos : sequences[i][1] /= ">"}

C10_Witness ==
    /\ Interactive /\ pc = "parse" /\ pos = 2 /\ Len(sequences) = 2
    /\ Chain(sequences[1]) = "Heavy" /\ Chain(sequences[2]) = "Heavy"
    /\ IsSome(vh_chain) /\ vh_chain[1].line = 2
    /\ vl_chain = None

\* The positions in the trace of the calls of operation op.
CallsOf(op) == {k \in 1..Len(trace) : trace[k].op = op}

\* The collected lines that classify as a heavy or a light chain.
ClassifiedLines ==
    LinesOfKind("Heavy", Len(sequences)) \cup LinesOfKind("Light", Len(sequences))

\* C11: in the interactive session humanize_antibody is called at most once,
\* and only when some collected line classified as a heavy or light chain;
\* scoring is called only after it; when no collected line classifies, the
\* session ends reporting that nothing could be parsed, with neither call made.
C11_HumanizeOnce ==
    Interactive =>
        /\ Cardinality(CallsOf("humanize_antibody")) <= 1
        /\ (CallsOf("humanize_antibody") /= {} => ClassifiedLines /= {})
        /\ \A k \in CallsOf("get_antibody_humanness humanized") :
              \E j \in CallsOf("humanize_antibody") : j < k
        /\ CallsOf("get_antibody_humanness parental") = {}
        /\ (sequences /= <<>> /\ ClassifiedLines = {}
                /\ pc \notin {"start", "collect", "check", "parse"} =>
               /\ pc = "done"
               /\ Last(log) = Msg("Could not parse any valid antibody sequences", 0)
               /\ CallsOf("humanize_antibody") = {}
               /\ CallsOf("get_antibody_humanness humanized") = {})

C11_Witness ==
    /\ Interactive /\ pc = "done" /\ Len(sequences) = 2
    /\ sequences[1] = <<">">> /\ sequences[2] = <<"X">>
    /\ Last(log) = Msg("Could not parse any valid antibody sequences", 0)
    /\ CallsOf("Chain") /= {}

\* The cap, if any, is not smaller than the input size.
CapNotSmaller == limit = None \/ limit[1] >= Len(source)

\* Processed records for which building the sequence entry raised.
BuildFailed == {i \in 1..idx : ~env[i].build}

\* Processed records for which a humanness scoring call raised.
ScoringFailed ==
    {i \in 1..idx : oasis_params /\ (~env[i].parental \/ ~env[i].humanized)}

\* Processed records for which a step of the per-record block raised.
FailedRecords == ParseFailed \cup HumanizeFailed \cup BuildFailed

\* The warning and error lines echoed for record i.
RecordMessages ==
    {"Warning: Could not parse", "Error processing",
     "Warning: Could not compute OASis scores"}
LinesFor(i) ==
    {j \in 1..Len(log) : log[j].msg \in RecordMessages /\ log[j].arg = i}

\* The count of the closing message of a batch run.
FinalCount ==
    {log[j].arg : j \in {n \in 1..Len(log) :
                            log[n].msg \in {"Completed", "Successfully humanized"}}}

\* The number of entries of the sequence artifact written.
WrittenEntries == IF IsSome(fasta_out) THEN {Len(fasta_out[1].entries)} ELSE {}

\* C12 as stated: in a batch run with a cap not smaller than the input size,
\* the reported count is the number of entries of the sequence artifact and
\* the input size minus the number of failed records, and one warning or
\* error line is logged per failed record, none for a record that succeeds.
C12_CountIsEntries ==
    (inputs /\ pc = "done" /\ CapNotSmaller) =>
        /\ FinalCount = WrittenEntries
        /\ FinalCount = {Len(source) - Cardinality(FailedRecords)}
        /\ \A i \in 1..Len(source) :
              Cardinality(LinesFor(i)) = IF i \in FailedRecords THEN 1 ELSE 0

\* C12 amended: in fasta-only mode the statement holds as it is.  In
\* full-report mode with a non-empty input the reported count is the number
\* of result entries, the input size minus the number of records whose
\* classification or humanization raised; each of those gets one error line;
\* a kept record gets one warning line if humanness scoring raised and one
\* error line if building its sequence entry raised, and then it has no
\* entry in the sequence artifact.
C12_CountByMode ==
    (inputs /\ pc = "done" /\ CapNotSmaller) =>
        IF fasta_only
        THEN /\ FinalCount = WrittenEntries
             /\ FinalCount = {Len(source) - Cardinality(FailedRecords)}
             /\ \A i \in 1..Len(source) :
                   Cardinality(LinesFor(i)) = IF i \in FailedRecords THEN 1 ELSE 0
        ELSE source /= <<>> =>
             /\ FinalCount = {Len(results)}
             /\ FinalCount =
                   {Len(source) - Cardinality(ParseFailed \cup HumanizeFailed)}
             /\ WrittenEntries =
                   {Len(results) - Cardinality(BuildFailed)}
             /\ \A i \in ParseFailed \cup HumanizeFailed :
                   /\ Cardinality(LinesFor(i)) = 1
                   /\ \A j \in LinesFor(i) : log[j].msg = "Error processing"
             /\ \A i \in Survivors :
                   Cardinality(LinesFor(i)) =
                       (IF i \in ScoringFailed THEN 1 ELSE 0)
                       + (IF i \in BuildFailed THEN 1 ELSE 0)

C12_Witness ==
    /\ FastaOnly /\ pc = "done" /\ limit = Some(2)
    /\ source = <<(<<"X">>), (<<"H">>)>>
    /\ FinalCount = {1} /\ WrittenEntries = {1}
    /\ Cardinality(LinesFor(1)) = 1 /\ LinesFor(2) = {}

\* The sequence entries of record i.
SequenceEntriesOf(i) ==
    {k \in 1..Len(humanized_records) : humanized_records[k].rec = i}

\* C13: in both batch modes a parse failure and an exception of the
\* humanization call are logged with messages of different kinds, each naming
\* the record, and both records are skipped while the run goes on.
C13_DistinctFailureKinds ==
    inputs =>
        /\ \A i \in ParseFailed \cup HumanizeFailed :
              /\ LinesFor(i) /= {}
              /\ EntriesOf(i) = {}
              /\ SequenceEntriesOf(i) = {}
        /\ \A i \in ParseFailed : \A j \in HumanizeFailed :
              \A a \in LinesFor(i) : \A b \in LinesFor(j) :
                  log[a].msg /= log[b].msg
        /\ pc /= "crashed"

WriteOps == {"write sequence", "write alignments", "write report"}

\* The stage of a call within the processing of one record.
Stage(op) ==
    CASE op = "Chain" -> 1
      [] op = "humanize_antibody" -> 2
      [] op = "get_antibody_humanness parental" -> 3
      [] op = "get_antibody_humanness humanized" -> 4
      [] OTHER -> 5

\* C14: in both batch modes every write of an artifact comes after every
\* classification, humanization and scoring call of the run, writes happen
\* only once the loop has run over every record, and the calls are made one
\* record at a time, in source order, each record's stages in order.
C14_WritesAfterProcessing ==
    inputs =>
        /\ \A j, k \in 1..Len(trace) :
              j < k /\ trace[j].op \in WriteOps => trace[k].op \in WriteOps
        /\ \A j, k \in 1..Len(trace) :
              j < k /\ trace[k].op \notin WriteOps =>
                 \/ trace[j].id < trace[k].id
                 \/ trace[j].id = trace[k].id
                    /\ Stage(trace[j].op) < Stage(trace[k].op)
        /\ ((\E k \in 1..Len(trace) : trace[k].op \in WriteOps)
               \/ IsSome(fasta_out) \/ IsSome(alignments_out) \/ IsSome(report_out)
            => pc = "done" /\ idx = Len(records))

C14_Witness ==
    /\ FullReport /\ oasis_params /\ pc = "done" /\ IsSome(output)
    /\ Len(records) = 2 /\ Len(results) = 2
    /\ IsSome(report_out) /\ IsSome(alignments_out) /\ IsSome(fasta_out)
    /\ Len(trace) = 11

\* The elements of s at the positions in keep, in order.
RECURSIVE Keep(_, _, _)
Keep(s, keep, i) ==
    IF i > Len(s) THEN <<>>
    ELSE (IF i \in keep THEN <<s[i]>> ELSE <<>>) \o Keep(s, keep, i + 1)

\* A full-report loop run from the start over the records recs, the
\* environment deciding envs[k] for recs[k]: the results and sequence entries.
RECURSIVE RunOver(_, _, _)
RunOver(recs, envs, acc) ==
    IF recs = <<>> THEN acc
    ELSE LET it == FullReportIteration(Head(recs), Head(envs), oasis_params,
                                       acc.results, acc.humanized_records)
         IN  RunOver(Tail(recs), Tail(envs),
                     [results |-> it.results,
                      humanized_records |-> it.humanized_records])

\* C15: in a full-report run, the result collection and the sequence entries
\* after any number of records are those of a run over the same records with
\* every record that failed classification or humanization removed from the
\* input: what a surviving record produces does not depend on the others.
C15_RecordIsolation ==
    (FullReport /\ pc \in {"fr_loop", "done"}) =>
        LET processed == SubSeq(records, 1, idx)
            alone == RunOver(Keep(processed, Survivors, 1),
                             Keep(env, Survivors, 1),
                             [results |-> <<>>, humanized_records |-> <<>>])
        IN  /\ results = alone.results
            /\ humanized_records = alone.humanized_records

C15_Witness ==
    /\ FullReport /\ pc = "done" /\ Len(records) = 2
    /\ 1 \in ParseFailed \cup HumanizeFailed
    /\ Len(results) = 1 /\ results[1].name = 2
    /\ Len(humanized_records) = 1

\* Processed records for which an "Error processing" line was echoed.
ErrorLogged ==
    {i \in 1..idx : \E j \in LinesFor(i) : log[j].msg = "Error processing"}

\* C16: in a full-report run a record for which "Error processing" is logged
\* has no entry in the result collection and none in the sequence artifact,
\* whichever step of the per-record block failed.
C16_ErrorMeansNoOutput ==
    FullReport =>
        \A i \in ErrorLogged :
            EntriesOf(i) = {} /\ SequenceEntriesOf(i) = {}

\* Processed records for which a warning or error line was echoed.
LoggedFailures == {i \in 1..idx : LinesFor(i) /= {}}

\* C17: in fasta-only mode every processed record has either one entry in
\* the sequence collection or one warning/error line, never both and never
\* neither, and the count reported at the end plus the number of records with
\* a logged failure is the number of processed records.
C17_AccountedOnce ==
    (FastaOnly /\ pc \in {"fo_loop", "done"}) =>
        /\ \A i \in 1..idx :
              Cardinality(SequenceEntriesOf(i)) + Cardinality(LinesFor(i)) = 1
        /\ pc = "done" =>
              /\ FinalCount = {idx - Cardinality(LoggedFailures)}
              /\ \A i \in 1..idx :
                    Cardinality({k \in 1..Len(fasta_out[1].entries) :
                                    fasta_out[1].entries[k].rec = i})
                        = Cardinality(SequenceEntriesOf(i))

C17_Witness ==
    /\ FastaOnly /\ pc = "done" /\ idx = 2
    /\ 1 \in HumanizeFailed /\ Cardinality(LinesFor(1)) = 1
    /\ SequenceEntriesOf(1) = {}
    /\ Cardinality(SequenceEntriesOf(2)) = 1 /\ LinesFor(2) = {}
    /\ FinalCount = {1}

\* A batch run that ended with an empty record list after reading and capping.
EndedEmpty == inputs /\ pc = "done" /\ records = <<>>

\* No classification and no humanization call was made.
NoProcessing == CallsOf("Chain") = {} /\ CallsOf("humanize_antibody") = {}

\* The sequence artifact was written, empty, to the requested destination.
EmptySequenceArtifact ==
    fasta_out = Some([dest |-> IF IsSome(output) THEN "file" ELSE "stdout",
                      entries |-> <<>>])

\* C18 as stated: with an empty record list both batch modes make no
\* classification or humanization call, write the empty sequence artifact to
\* the requested destination and report a final count of zero.
C18_EmptyRunSameOutput ==
    EndedEmpty =>
        /\ NoProcessing
        /\ EmptySequenceArtifact
        /\ FinalCount = {0}

\* C18 amended: with an empty record list neither batch mode makes a
\* classification or humanization call.  Fasta-only mode writes the empty
\* sequence artifact to the requested destination and reports a count of
\* zero; full-report mode echoes "No valid sequences found!" and ends without
\* writing any artifact and without reporting a count.
C18_EmptyRunByMode ==
    EndedEmpty =>
        /\ NoProcessing
        /\ IF fasta_only
           THEN /\ EmptySequenceArtifact
                /\ FinalCount = {0}
           ELSE /\ fasta_out = None /\ alignments_out = None /\ report_out = None
                /\ FinalCount = {}
                /\ Last(log) = Msg("No valid sequences found!", 0)

C18_Witness ==
    /\ EndedEmpty /\ FullReport /\ source /= <<>>
    /\ fasta_out = None
    /\ Last(log) = Msg("No valid sequences found!", 0)

====
